---- MODULE Spec2Model ----
(***************************************************************************)
(* The storage-deal client of protocol/storage/client.go: ProposeDeal,     *)
(* recordResponse, QueryDeal, loadDeals, saveDeal and LoadVouchersForDeal, *)
(* run by concurrent callers against one Client (deals, dealsDs, dealsLk);  *)
(* ProposeDeal's amounts at the width of Go's integers; and the heartbeat  *)
(* service of package metrics: Start, Connect, Run and Beat.               *)
(***************************************************************************)
EXTENDS Integers, Sequences, FiniteSets, TLC

(* ------------------------------ bounds --------------------------------- *)

\* Proposals built over the whole run.
MaxProposals == 3

\* Callers of the one Client, and those of them that also query.
Threads == {"t1", "t2"}
Queriers == {"t1"}

\* Inputs of ProposeDeal and what the collaborators answer.
Miners == {"m1"}
Data == {"d1", "d2"}
Sizes == {5}
Prices == {10}
Durations == {3}
Channels == {1}

(* ------------------------- program constants --------------------------- *)

VoucherInterval == 1000
ChannelExpiryBuffer == 2000
CreateChannelGasPrice == 0
CreateChannelGasLimit == 300
ClientDatastorePrefix == "client"

\* An error is the chain of its messages, outermost first; Nil is no error.
Nil == <<>>
Err(msg) == <<msg>>
Wrap(e, msg) == <<msg>> \o e
ErrDuplicateDeal == Err("proposal is a duplicate of existing deal")
NoThread == "none"

(* ------------------------------ values --------------------------------- *)

NoCid == <<>>
NoPayment == [Channel |-> 0, ChannelMsgCid |-> <<>>, Vouchers |-> <<>>]
NoProposal ==
    [PieceRef |-> "", Size |-> 0, TotalPrice |-> 0, Duration |-> 0,
     MinerAddress |-> "", Payment |-> NoPayment, LastDuplicate |-> <<>>]
NoResponse == [State |-> "none", Message |-> "", ProposalCid |-> NoCid]
EmptyMap == [x \in {} |-> x]

Range(s) == {s[i] : i \in 1..Len(s)}

\* convert.ToCid: the hash of the canonical serialisation of the proposal.
\* Two proposals have one identity exactly when all their fields agree.
ToCid(p) ==
    <<"cid", p.PieceRef, p.Size, p.TotalPrice, p.Duration, p.MinerAddress,
      p.Payment, p.LastDuplicate>>

\* cid.String(): the text form of an identity.
CidString(c) == <<"b58", c>>

\* price.MulBigInt(big.NewInt(int64(size * duration))); size * duration stays
\* far below 2^63 for the sizes and durations enumerated here.
TotalPriceOf(price, size, duration) == price * (size * duration)

\* cbor.DumpObject and its inverse cbor.DecodeInto.
DumpObject(d) == <<"cbor", d.Miner, d.Proposal, d.Response>>
DecodeInto(b) == [Miner |-> b[2], Proposal |-> b[3], Response |-> b[4]]

\* datastore.KeyWithNamespaces([]string{deal.ClientDatastorePrefix, cid.String()})
DealKey(c) == <<ClientDatastorePrefix, CidString(c)>>

\* Go map assignment m[c] = d.
MapAssign(m, c, d) ==
    [x \in DOMAIN m \cup {c} |-> IF x = c THEN d ELSE m[x]]

(* ------------------------------- state --------------------------------- *)

VARIABLES
    deals,            \* Client.deals: identity -> Deal
    ds,               \* Client.dealsDs: key -> bytes
    dealsLk,          \* holder of Client.dealsLk, or NoThread
    mapWriter,        \* thread inside the assignment to Client.deals, or NoThread
    crashed,          \* the runtime aborted the process
    fresh,            \* a later NewClient on the same datastore
    pc,               \* each caller's position
    proposal,         \* ProposeDeal: proposal
    proposalCid,      \* ProposeDeal: proposalCid; QueryDeal / LoadVouchersForDeal: the argument
    allowDuplicates,  \* ProposeDeal: allowDuplicates
    isDuplicate,      \* ProposeDeal: isDuplicate
    response,         \* ProposeDeal / QueryDeal: response
    mineraddr,        \* QueryDeal: mineraddr
    vouchers,         \* LoadVouchersForDeal: results
    err,              \* the error the call returned (Nil for none)
    trace,            \* the collaborator calls and store steps of the current call
    wasDup,           \* history: the identity was a key when the duplicate check ran
    nProposals,       \* history: proposals built so far
    minerPeer,        \* the chain: the peer each miner is registered at now
    conn,             \* each caller's pid and the stream it opened
    calc,             \* ProposeDeal's arithmetic at full width: arguments and results
    hb                \* the heartbeat service of metrics/heartbeat.go

vars ==
    <<deals, ds, dealsLk, mapWriter, crashed, fresh, pc, proposal, proposalCid,
      allowDuplicates, isDuplicate, response, mineraddr, vouchers, err, trace,
      wasDup, nProposals, minerPeer, conn, calc, hb>>

store == <<deals, ds, dealsLk, mapWriter>>
locals == <<proposal, proposalCid, allowDuplicates, isDuplicate, response,
            mineraddr, vouchers>>
history == <<wasDup, nProposals>>
\* What the storage client's store and history steps leave alone.
apart == <<minerPeer, conn, calc, hb>>
\* What the storage client never touches.
aside == <<minerPeer, calc, hb>>

\* No peer resolved and no stream opened yet.
NoConn == [asked |-> "", pid |-> "", stream |-> "", protocol |-> ""]
\* The arithmetic and the heartbeat service are not running.
NoCalc == [pc |-> "off"]
NoHeartbeat == [pc |-> "off"]

NotBuilt == [built |-> FALSE, err |-> Nil, deals |-> EmptyMap]

\* The first client is alive.
Running == ~crashed /\ ~fresh.built

\* Every caller is between calls.
CallersIdle ==
    /\ pc = [t \in Threads |-> "idle"]
    /\ proposal = [t \in Threads |-> NoProposal]
    /\ proposalCid = [t \in Threads |-> NoCid]
    /\ allowDuplicates = [t \in Threads |-> FALSE]
    /\ isDuplicate = [t \in Threads |-> FALSE]
    /\ response = [t \in Threads |-> NoResponse]
    /\ mineraddr = [t \in Threads |-> ""]
    /\ vouchers = [t \in Threads |-> <<>>]
    /\ err = [t \in Threads |-> Nil]
    /\ trace = [t \in Threads |-> <<>>]
    /\ wasDup = [t \in Threads |-> FALSE]
    /\ conn = [t \in Threads |-> NoConn]

\* A client that has recorded nothing, with every caller between calls.
ClientInit ==
    /\ deals = EmptyMap
    /\ ds = EmptyMap
    /\ dealsLk = NoThread
    /\ mapWriter = NoThread
    /\ crashed = FALSE
    /\ fresh = NotBuilt
    /\ nProposals = 0
    /\ CallersIdle

Init ==
    /\ ClientInit
    /\ minerPeer = [m \in Miners |-> "p1"]
    /\ calc = NoCalc
    /\ hb = NoHeartbeat

\* return ..., e
Return(t, e) ==
    /\ pc' = [pc EXCEPT ![t] = "done"]
    /\ err' = [err EXCEPT ![t] = e]

Call(t, name) == trace' = [trace EXCEPT ![t] = Append(@, name)]

(* --------------------- fixed-width and big integers -------------------- *)

\* A number is the sequence of its digits in base Base, least significant
\* first: a uint64 has U64Limbs of them, a big.Int as many as it needs.
Base == 256
U64Limbs == 8
BigLimbs == 24

\* The digits of a number below Base^3.
FromNat(n, L) == [i \in 1..L |-> IF i <= 3 THEN (n \div Base^(i-1)) % Base ELSE 0]
\* The digits of 2^k.
Pow2(k, L) == [i \in 1..L |-> IF i = (k \div 8) + 1 THEN 2^(k % 8) ELSE 0]
Widen(a, L) == [i \in 1..L |-> IF i <= Len(a) THEN a[i] ELSE 0]
Zero(L) == [i \in 1..L |-> 0]

\* Carry propagation from digit i on; the carry out of the last digit is lost.
RECURSIVE Carry(_, _, _)
Carry(c, i, carry) ==
    IF i > Len(c) THEN <<>>
    ELSE <<(c[i] + carry) % Base>> \o Carry(c, i + 1, (c[i] + carry) \div Base)

RECURSIVE Dot(_, _, _, _)
Dot(a, b, k, i) ==
    IF i > k THEN 0
    ELSE (IF i <= Len(a) /\ k + 1 - i <= Len(b) THEN a[i] * b[k + 1 - i] ELSE 0)
         + Dot(a, b, k, i + 1)

\* a + b and a * b modulo Base^L.
AddMod(a, b, L) == Carry([k \in 1..L |-> Widen(a, L)[k] + Widen(b, L)[k]], 1, 0)
MulMod(a, b, L) == Carry([k \in 1..L |-> Dot(a, b, k, 1)], 1, 0)

\* Go's uint64 + and *: the result modulo 2^64.
U64Add(a, b) == AddMod(a, b, U64Limbs)
U64Mul(a, b) == MulMod(a, b, U64Limbs)

\* Go's int64(u) followed by big.NewInt: the top bit of u is the sign, and a
\* negative value has magnitude 2^64 - u.
NewIntInt64(u) ==
    IF u[U64Limbs] >= Base \div 2
    THEN [neg |-> TRUE,
          mag |-> Widen(AddMod([i \in 1..U64Limbs |-> Base - 1 - u[i]],
                               FromNat(1, U64Limbs), U64Limbs), BigLimbs)]
    ELSE [neg |-> FALSE, mag |-> Widen(u, BigLimbs)]

\* types.NewBlockHeight(u) and types.NewBytesAmount(u): a big.Int holding u.
NewBlockHeight(u) == [neg |-> FALSE, mag |-> Widen(u, BigLimbs)]

\* AttoFIL.MulBigInt for a price that is not negative, and BlockHeight.Add
\* for heights that are not negative: big.Int arithmetic, which never wraps.
MulBigInt(price, x) ==
    LET m == MulMod(price.mag, x.mag, BigLimbs)
    IN [neg |-> x.neg /\ m # Zero(BigLimbs), mag |-> m]
BlockHeightAdd(h, x) == [neg |-> FALSE, mag |-> AddMod(h.mag, x.mag, BigLimbs)]

\* ProposeDeal, line 130 (and line 165):
\* price.MulBigInt(big.NewInt(int64(size * duration)))
totalPrice(price, size, duration) ==
    MulBigInt(price, NewIntInt64(U64Mul(size, duration)))

\* ProposeDeal, lines 162-171: the parameters handed to CreatePayments.
CreatePaymentsParams(fromAddress, minerOwner, price, size, duration, chainHeight) ==
    [From |-> fromAddress,
     To |-> minerOwner,
     Value |-> MulBigInt(price, NewIntInt64(U64Mul(size, duration))),
     Duration |-> duration,
     PaymentInterval |-> VoucherInterval,
     GasPrice |-> CreateChannelGasPrice,
     GasLimit |-> CreateChannelGasLimit,
     ChannelExpiry |->
         BlockHeightAdd(chainHeight,
                        NewBlockHeight(U64Add(duration,
                                              FromNat(ChannelExpiryBuffer, U64Limbs))))]

(* ------------------------------ ProposeDeal ---------------------------- *)

\* The lookups of ProposeDeal that come before the proposal is built, in order;
\* each one can fail and ends the call.
LookupErrors ==
    {Wrap(Err("GetFileSize"), "failed to determine the size of the data"),
     Wrap(Err("MinerGetAsk"), "failed to get ask price"),
     Err("ChainBlockHeight"), Err("ConfigGet"),
     Err("Default wallet address is not set correctly"),
     Err("MinerGetOwnerAddress"),
     Wrap(Err("ToCid"), "failed to get cid of proposal")}

\* A read of Client.deals[c] made without dealsLk. While another thread is inside
\* the assignment to the map the read is a data race: it can see the map as it
\* was, see the key being assigned, or miss a key that is there.
UnlockedLookup(c) ==
    IF mapWriter = NoThread
    THEN {c \in DOMAIN deals}
    ELSE {c \in DOMAIN deals, FALSE}
         \cup (IF proposalCid[mapWriter] = c THEN {TRUE} ELSE {})

\* ProposeDeal, lines 100-145: size, ask, height, wallet, owner, the proposal and
\* its identity.
PD_Build(t) ==
    /\ Running
    /\ UNCHANGED apart
    /\ pc[t] = "idle"
    /\ nProposals < MaxProposals
    /\ \E miner \in Miners, data \in Data, duration \in Durations, allow \in BOOLEAN,
          size \in Sizes, price \in Prices, e \in LookupErrors \cup {Nil} :
         IF e # Nil
         THEN /\ Return(t, e)
              /\ UNCHANGED <<locals, trace, nProposals>>
         ELSE LET p == [PieceRef |-> data, Size |-> size,
                        TotalPrice |-> TotalPriceOf(price, size, duration),
                        Duration |-> duration, MinerAddress |-> miner,
                        Payment |-> NoPayment, LastDuplicate |-> <<>>]
              IN /\ proposal' = [proposal EXCEPT ![t] = p]
                 /\ proposalCid' = [proposalCid EXCEPT ![t] = ToCid(p)]
                 /\ allowDuplicates' = [allowDuplicates EXCEPT ![t] = allow]
                 /\ pc' = [pc EXCEPT ![t] = "dupCheck"]
                 /\ nProposals' = nProposals + 1
                 /\ UNCHANGED <<isDuplicate, response, mineraddr, vouchers, err, trace>>
    /\ UNCHANGED <<store, crashed, fresh, wasDup>>

\* ProposeDeal, lines 147-150: the duplicate check.
PD_DupCheck(t) ==
    /\ Running
    /\ UNCHANGED apart
    /\ pc[t] = "dupCheck"
    /\ wasDup' = [wasDup EXCEPT ![t] = proposalCid[t] \in DOMAIN deals]
    /\ Call(t, "dupCheck")
    /\ \E dup \in UnlockedLookup(proposalCid[t]) :
         /\ isDuplicate' = [isDuplicate EXCEPT ![t] = dup]
         /\ IF dup /\ ~allowDuplicates[t]
            THEN Return(t, ErrDuplicateDeal)
            ELSE /\ pc' = [pc EXCEPT ![t] = IF dup THEN "dupLoop" ELSE "createPayments"]
                 /\ UNCHANGED err
    /\ UNCHANGED <<store, crashed, fresh, proposal, proposalCid, allowDuplicates,
                   response, mineraddr, vouchers, nProposals>>

\* ProposeDeal, lines 152-159: one turn of the duplicate-resolution loop, with
\* the lookup of its post statement.
PD_DupLoop(t) ==
    /\ Running
    /\ UNCHANGED apart
    /\ pc[t] = "dupLoop"
    /\ Call(t, "dupLoop")
    /\ \E cidFails \in BOOLEAN :
         LET p == [proposal[t] EXCEPT !.LastDuplicate = CidString(proposalCid[t])]
         IN /\ proposal' = [proposal EXCEPT ![t] = p]
            /\ IF cidFails
               THEN /\ Return(t, Wrap(Err("ToCid"), "failed to get cid of proposal"))
                    /\ UNCHANGED <<proposalCid, isDuplicate>>
               ELSE /\ proposalCid' = [proposalCid EXCEPT ![t] = ToCid(p)]
                    /\ \E dup \in UnlockedLookup(ToCid(p)) :
                         /\ isDuplicate' = [isDuplicate EXCEPT ![t] = dup]
                         /\ pc' = [pc EXCEPT ![t] =
                                     IF dup THEN "dupLoop" ELSE "createPayments"]
                    /\ UNCHANGED err
    /\ UNCHANGED <<store, crashed, fresh, allowDuplicates, response, mineraddr,
                   vouchers, history>>

\* The Go runtime finds a map read running beside a map write and aborts the
\* process ("concurrent map read and map write").
MapRaceAbort(t) ==
    /\ Running
    /\ UNCHANGED apart
    /\ pc[t] \in {"dupCheck", "dupLoop"}
    /\ mapWriter # NoThread
    /\ crashed' = TRUE
    /\ UNCHANGED <<store, fresh, pc, locals, err, trace, history>>

\* What CreatePayments returns when it creates channel n.
PaymentFor(n) ==
    [Channel |-> n, ChannelMsgCid |-> CidString(<<"cid", "msg", n>>),
     Vouchers |-> <<[Channel |-> n, Amount |-> 1]>>]

\* PD_CreatePayments with the error of CreatePayments dropped: the call goes on
\* with an empty payment record.
PD_CreatePayments_IgnoresError(t) ==
    /\ Running
    /\ UNCHANGED apart
    /\ pc[t] = "createPayments"
    /\ \/ /\ trace' = [trace EXCEPT ![t] = @ \o <<"CreatePayments", "CreatePayments failed">>]
          /\ UNCHANGED proposal
       \/ /\ Call(t, "CreatePayments")
          /\ \E n \in Channels :
               proposal' = [proposal EXCEPT ![t].Payment = PaymentFor(n)]
    /\ pc' = [pc EXCEPT ![t] = "getPeerID"]
    /\ UNCHANGED <<store, crashed, fresh, proposalCid, allowDuplicates, isDuplicate,
                   response, mineraddr, vouchers, err, history>>

\* ProposeDeal, lines 161-178: create the payment channel and write it into the
\* proposal.
PD_CreatePayments(t) ==
    /\ Running
    /\ UNCHANGED apart
    /\ pc[t] = "createPayments"
    /\ \/ /\ Return(t, Err("CreatePayments"))
          /\ trace' = [trace EXCEPT ![t] = @ \o <<"CreatePayments", "CreatePayments failed">>]
          /\ UNCHANGED proposal
       \/ /\ Call(t, "CreatePayments")
          /\ \E n \in Channels :
               proposal' = [proposal EXCEPT ![t].Payment = PaymentFor(n)]
          /\ pc' = [pc EXCEPT ![t] = "getPeerID"]
          /\ UNCHANGED err
    /\ UNCHANGED <<store, crashed, fresh, proposalCid, allowDuplicates, isDuplicate,
                   response, mineraddr, vouchers, history>>

\* api.MinerGetPeerID(ctx, m): the peer miner m is registered at when asked.
MinerGetPeerID(m) == minerPeer[m]

\* PD_MinerGetPeerID asking once more when MinerGetPeerID fails the first time.
PD_MinerGetPeerID_Retries(t) ==
    /\ Running
    /\ UNCHANGED aside
    /\ pc[t] = "getPeerID"
    /\ Call(t, "MinerGetPeerID")
    /\ \/ /\ IF "MinerGetPeerID" \in Range(trace[t])
             THEN Return(t, Err("MinerGetPeerID"))
             ELSE UNCHANGED <<pc, err>>
          /\ conn' = [conn EXCEPT ![t].asked = proposal[t].MinerAddress]
       \/ /\ pc' = [pc EXCEPT ![t] = "makeRequest"]
          /\ conn' = [conn EXCEPT ![t].asked = proposal[t].MinerAddress,
                                  ![t].pid = MinerGetPeerID(proposal[t].MinerAddress)]
          /\ UNCHANGED err
    /\ UNCHANGED <<store, crashed, fresh, locals, history>>

\* ProposeDeal, lines 180-184.
PD_MinerGetPeerID(t) ==
    /\ Running
    /\ UNCHANGED aside
    /\ pc[t] = "getPeerID"
    /\ Call(t, "MinerGetPeerID")
    /\ \/ /\ Return(t, Err("MinerGetPeerID"))
          /\ conn' = [conn EXCEPT ![t].asked = proposal[t].MinerAddress]
       \/ /\ pc' = [pc EXCEPT ![t] = "makeRequest"]
          /\ conn' = [conn EXCEPT ![t].asked = proposal[t].MinerAddress,
                                  ![t].pid = MinerGetPeerID(proposal[t].MinerAddress)]
          /\ UNCHANGED err
    /\ UNCHANGED <<store, crashed, fresh, locals, history>>

\* What NewStream, WriteMsg and ReadMsg can answer.
OpenResults == {"ok", "ErrNotSupported", "failed"}
IoResults == {"ok", "failed"}

\* MakeProtocolRequest going on to read the response after a failed write.
MakeProtocolRequest_ReadsAfterFailedWrite(open, write, read) ==
    IF open = "ErrNotSupported"
    THEN [err |-> Err("could not establish connection with peer. Peer does not support protocol"),
          steps |-> <<"NewStream", "NewStream unsupported">>]
    ELSE IF open # "ok"
    THEN [err |-> Wrap(Err("NewStream"), "failed to establish connection with the peer"),
          steps |-> <<"NewStream", "NewStream failed">>]
    ELSE IF write # "ok"
    THEN [err |-> Wrap(Err("WriteMsg"), "failed to write request"),
          steps |-> <<"NewStream", "WriteMsg", "WriteMsg failed", "ReadMsg">>]
    ELSE IF read # "ok"
    THEN [err |-> Wrap(Err("ReadMsg"), "failed to read response"),
          steps |-> <<"NewStream", "WriteMsg", "ReadMsg", "ReadMsg failed">>]
    ELSE [err |-> Nil, steps |-> <<"NewStream", "WriteMsg", "ReadMsg">>]

\* ClientNodeImpl.MakeProtocolRequest, lines 334-352: the error it returns
\* and the stream operations it makes, given what each operation answers.
MakeProtocolRequest(open, write, read) ==
    IF open = "ErrNotSupported"
    THEN [err |-> Err("could not establish connection with peer. Peer does not support protocol"),
          steps |-> <<"NewStream", "NewStream unsupported">>]
    ELSE IF open # "ok"
    THEN [err |-> Wrap(Err("NewStream"), "failed to establish connection with the peer"),
          steps |-> <<"NewStream", "NewStream failed">>]
    ELSE IF write # "ok"
    THEN [err |-> Wrap(Err("WriteMsg"), "failed to write request"),
          steps |-> <<"NewStream", "WriteMsg", "WriteMsg failed">>]
    ELSE IF read # "ok"
    THEN [err |-> Wrap(Err("ReadMsg"), "failed to read response"),
          steps |-> <<"NewStream", "WriteMsg", "ReadMsg", "ReadMsg failed">>]
    ELSE [err |-> Nil, steps |-> <<"NewStream", "WriteMsg", "ReadMsg">>]

ResponseStates == {"Accepted", "Rejected", "Failed", "Unknown"}

\* checkDealResponse with the Rejected case falling into the Accepted one.
checkDealResponse_RejectedPasses(resp) ==
    CASE resp.State = "Failed" -> Err("deal failed")
      [] resp.State \in {"Accepted", "Rejected"} -> Nil
      [] OTHER -> Err("invalid proposal response")

\* checkDealResponse
checkDealResponse(resp) ==
    CASE resp.State = "Rejected" -> Err("deal rejected")
      [] resp.State = "Failed" -> Err("deal failed")
      [] resp.State = "Accepted" -> Nil
      [] OTHER -> Err("invalid proposal response")

\* The identity a miner names in its response: the one it computes for the
\* proposal it received.
ResponseCid(t) == ToCid(proposal[t])

\* ProposeDeal, lines 186-194: the exchange and the check of the response.
PD_MakeProtocolRequest(t) ==
    /\ Running
    /\ UNCHANGED aside
    /\ pc[t] = "makeRequest"
    /\ conn' = [conn EXCEPT ![t].stream = conn[t].pid,
                            ![t].protocol = "makeDealProtocol"]
    /\ \E open \in OpenResults, write \in IoResults, read \in IoResults :
         LET r == MakeProtocolRequest(open, write, read)
         IN IF r.err # Nil
            THEN /\ Return(t, Wrap(r.err, "error sending proposal"))
                 /\ trace' = [trace EXCEPT ![t] = @ \o <<"MakeProtocolRequest">> \o r.steps]
                 /\ UNCHANGED response
            ELSE \E st \in ResponseStates :
                   LET resp == [State |-> st,
                                Message |-> IF st = "Accepted" THEN "" ELSE "no",
                                ProposalCid |-> ResponseCid(t)]
                   IN /\ response' = [response EXCEPT ![t] = resp]
                      /\ trace' = [trace EXCEPT ![t] =
                                     @ \o <<"MakeProtocolRequest">> \o r.steps
                                       \o <<"checkDealResponse">>]
                      /\ IF checkDealResponse(resp) # Nil
                         THEN Return(t, Wrap(checkDealResponse(resp),
                                             "response check failed"))
                         ELSE /\ pc' = [pc EXCEPT ![t] = "rrLock"]
                              /\ UNCHANGED err
    /\ UNCHANGED <<store, crashed, fresh, proposal, proposalCid, allowDuplicates,
                   isDuplicate, mineraddr, vouchers, history>>

(* ---------------------------- recordResponse --------------------------- *)

\* recordResponse, lines 206-207: take dealsLk.
RR_Lock(t) ==
    /\ Running
    /\ UNCHANGED apart
    /\ pc[t] = "rrLock"
    /\ dealsLk = NoThread
    /\ dealsLk' = t
    /\ pc' = [pc EXCEPT ![t] = "rrCheck"]
    /\ Call(t, "recordResponse")
    /\ UNCHANGED <<deals, ds, mapWriter, crashed, fresh, locals, err, history>>

\* recordResponse without its existence check.
InProgress_Never(c) == FALSE

\* recordResponse, line 208: _, ok := smc.deals[proposalCid]
InProgress(c) == c \in DOMAIN deals

\* The Deal recordResponse builds, lines 213-217.
DealOf(t) ==
    [Miner |-> proposal[t].MinerAddress, Proposal |-> proposal[t],
     Response |-> response[t]]

\* recordResponse, lines 208-212: the existence check; an existing entry ends the
\* call (the deferred Unlock runs), a missing one leads into the assignment.
RR_Check(t) ==
    /\ Running
    /\ UNCHANGED apart
    /\ pc[t] = "rrCheck"
    /\ IF InProgress(proposalCid[t])
       THEN /\ Return(t, Wrap(Err("deal is already in progress"),
                              "failed to track response"))
            /\ dealsLk' = NoThread
            /\ UNCHANGED mapWriter
       ELSE /\ pc' = [pc EXCEPT ![t] = "rrWrite"]
            /\ mapWriter' = t
            /\ UNCHANGED <<dealsLk, err>>
    /\ UNCHANGED <<deals, ds, crashed, fresh, locals, trace, history>>

\* recordResponse, lines 213-217: smc.deals[proposalCid] = &deal.Deal{...}
RR_Write(t) ==
    /\ Running
    /\ UNCHANGED apart
    /\ pc[t] = "rrWrite"
    /\ deals' = MapAssign(deals, proposalCid[t], DealOf(t))
    /\ mapWriter' = NoThread
    /\ pc' = [pc EXCEPT ![t] = "saveDeal"]
    /\ Call(t, "insert")
    /\ UNCHANGED <<ds, dealsLk, crashed, fresh, locals, err, history>>

\* What saveDeal returns: Nil, or the failure of the step that failed.
SaveErrors ==
    {Wrap(Err("DumpObject"), "could not marshal storageDeal"),
     Wrap(Err("Put"),
          "could not save client deal to disk, in-memory deals differ from persisted deals!")}

\* saveDeal with the error of Put dropped.
SaveResult_Swallowed(e) == Nil

\* What saveDeal returns when marshalling or Put ended with e, lines 285-295.
SaveResult(e) == e

\* recordResponse taking its entry out again when saveDeal fails.
DealsAfterSave_RollsBack(t, e) ==
    IF e = Nil THEN deals
    ELSE [c \in DOMAIN deals \ {proposalCid[t]} |-> deals[c]]

\* The map after saveDeal returned e to recordResponse, line 218: the entry stays.
DealsAfterSave(t, e) == deals

\* saveDeal, lines 280-296, then recordResponse returns its result (the deferred
\* Unlock runs) and ProposeDeal returns, lines 198-202.
SaveDeal(t) ==
    /\ Running
    /\ UNCHANGED apart
    /\ pc[t] = "saveDeal"
    /\ IF proposalCid[t] \notin DOMAIN deals
       THEN /\ Return(t, Wrap(Err("Could not find client deal with cid"),
                              "failed to track response"))
            /\ UNCHANGED <<deals, ds, trace>>
       ELSE \E e \in SaveErrors \cup {Nil} :
              /\ IF e = Wrap(Err("DumpObject"), "could not marshal storageDeal")
                 THEN UNCHANGED <<ds, trace>>
                 ELSE /\ trace' = [trace EXCEPT ![t] =
                                     IF e = Nil THEN Append(@, "put")
                                     ELSE @ \o <<"put", "put failed">>]
                      /\ ds' = IF e = Nil
                               THEN MapAssign(ds, DealKey(proposalCid[t]),
                                              DumpObject(deals[proposalCid[t]]))
                               ELSE ds
              /\ deals' = DealsAfterSave(t, e)
              /\ Return(t, IF SaveResult(e) = Nil THEN Nil
                           ELSE Wrap(SaveResult(e), "failed to track response"))
    /\ dealsLk' = NoThread
    /\ UNCHANGED <<mapWriter, crashed, fresh, locals, history>>

(* ------------------------------- QueryDeal ----------------------------- *)

\* The identities callers ask about: stored ones, the ones miners named in their
\* responses, and identities of proposals that may never have been recorded.
BaseCids ==
    {ToCid([PieceRef |-> data, Size |-> size,
            TotalPrice |-> TotalPriceOf(price, size, duration),
            Duration |-> duration, MinerAddress |-> miner,
            Payment |-> NoPayment, LastDuplicate |-> <<>>]) :
       <<miner, data, duration, size, price>> \in
           Miners \X Data \X Durations \X Sizes \X Prices}

KnownCids ==
    DOMAIN deals \cup {deals[c].Response.ProposalCid : c \in DOMAIN deals} \cup BaseCids

\* QueryDeal, line 247, and minerForProposal, lines 235-236: take dealsLk.
MFP_Lock(t) ==
    /\ Running
    /\ UNCHANGED apart
    /\ pc[t] = "idle"
    /\ dealsLk = NoThread
    /\ dealsLk' = t
    /\ \E c \in KnownCids : proposalCid' = [proposalCid EXCEPT ![t] = c]
    /\ pc' = [pc EXCEPT ![t] = "mfpRead"]
    /\ Call(t, "minerForProposal")
    /\ UNCHANGED <<deals, ds, mapWriter, crashed, fresh, proposal, allowDuplicates,
                   isDuplicate, response, mineraddr, vouchers, err, history>>

\* minerForProposal, lines 237-242, and QueryDeal, lines 248-250; the deferred
\* Unlock runs.
MFP_Read(t) ==
    /\ Running
    /\ UNCHANGED apart
    /\ pc[t] = "mfpRead"
    /\ dealsLk' = NoThread
    /\ IF proposalCid[t] \notin DOMAIN deals
       THEN /\ Return(t, Err("no such proposal by cid"))
            /\ UNCHANGED mineraddr
       ELSE /\ mineraddr' = [mineraddr EXCEPT ![t] = deals[proposalCid[t]].Miner]
            /\ pc' = [pc EXCEPT ![t] = "qdGetPeerID"]
            /\ UNCHANGED err
    /\ UNCHANGED <<deals, ds, mapWriter, crashed, fresh, proposal, proposalCid,
                   allowDuplicates, isDuplicate, response, vouchers, trace, history>>

\* QueryDeal asking for the peer of one fixed miner, whichever miner the Deal
\* names.
QueriedMiner_First(t) == "m1"

\* QueryDeal, line 252: the miner whose peer is asked for.
QueriedMiner(t) == mineraddr[t]

\* QueryDeal, lines 252-255.
QD_MinerGetPeerID(t) ==
    /\ Running
    /\ UNCHANGED aside
    /\ pc[t] = "qdGetPeerID"
    /\ Call(t, "MinerGetPeerID")
    /\ \/ /\ Return(t, Err("MinerGetPeerID"))
          /\ conn' = [conn EXCEPT ![t].asked = QueriedMiner(t)]
       \/ /\ pc' = [pc EXCEPT ![t] = "qdRequest"]
          /\ conn' = [conn EXCEPT ![t].asked = QueriedMiner(t),
                                  ![t].pid = MinerGetPeerID(QueriedMiner(t))]
          /\ UNCHANGED err
    /\ UNCHANGED <<store, crashed, fresh, locals, history>>

\* QueryDeal storing the response it got in the Deal it asked about.
DealsAfterQuery_WritesBack(t, resp) ==
    [deals EXCEPT ![proposalCid[t]].Response = resp]

\* The map after QueryDeal got resp, lines 258-264: the response goes to the
\* caller alone.
DealsAfterQuery(t, resp) == deals

\* QueryDeal, lines 257-264: the query exchange.
QD_MakeProtocolRequest(t) ==
    /\ Running
    /\ UNCHANGED aside
    /\ pc[t] = "qdRequest"
    /\ conn' = [conn EXCEPT ![t].stream = conn[t].pid,
                            ![t].protocol = "queryDealProtocol"]
    /\ \E open \in OpenResults, write \in IoResults, read \in IoResults :
         LET r == MakeProtocolRequest(open, write, read)
         IN /\ trace' = [trace EXCEPT ![t] = @ \o <<"MakeProtocolRequest">> \o r.steps]
            /\ IF r.err # Nil
               THEN /\ Return(t, Wrap(r.err, "error querying deal"))
                    /\ UNCHANGED <<response, deals>>
               ELSE \E st \in ResponseStates :
                      LET resp == [State |-> st,
                                   Message |-> IF st = "Accepted" THEN "" ELSE "no",
                                   ProposalCid |-> proposalCid[t]]
                      IN /\ response' = [response EXCEPT ![t] = resp]
                         /\ deals' = DealsAfterQuery(t, resp)
                         /\ Return(t, Nil)
    /\ UNCHANGED <<ds, dealsLk, mapWriter, crashed, fresh, proposal, proposalCid,
                   allowDuplicates, isDuplicate, mineraddr, vouchers, history>>

(* ----------------------- DealsLs and its two readers ------------------- *)

\* What the select on DealsLs' two channels receives first: a stored deal when
\* there is one (in whatever order the datastore enumerates them), the nil end
\* signal when there is none, or the enumeration's error.
DealsLsFirst ==
    {[isDeal |-> TRUE, deal |-> DecodeInto(ds[k]), err |-> Nil] : k \in DOMAIN ds}
    \cup (IF ds = EmptyMap
          THEN {[isDeal |-> FALSE, deal |-> DecodeInto(<<"cbor", "", NoProposal, NoResponse>>),
                 err |-> Nil]}
          ELSE {})
    \cup {[isDeal |-> FALSE, deal |-> DecodeInto(<<"cbor", "", NoProposal, NoResponse>>),
           err |-> Err("DealsLs")]}

\* LoadVouchersForDeal
LoadVouchersForDeal(t) ==
    /\ Running
    /\ UNCHANGED apart
    /\ pc[t] = "idle"
    /\ Call(t, "LoadVouchersForDeal")
    /\ \E dealCid \in KnownCids, first \in DealsLsFirst :
         /\ proposalCid' = [proposalCid EXCEPT ![t] = dealCid]
         /\ vouchers' = [vouchers EXCEPT ![t] =
                           IF first.isDeal /\ first.deal.Response.ProposalCid = dealCid
                           THEN first.deal.Proposal.Payment.Vouchers
                           ELSE <<>>]
         /\ Return(t, first.err)
    /\ UNCHANGED <<store, crashed, fresh, proposal, allowDuplicates, isDuplicate,
                   response, mineraddr, history>>

\* loadDeals: the map it builds and the error it returns.
loadDeals(first) ==
    [built |-> TRUE,
     err |-> IF first.err = Nil THEN Nil
             ELSE Wrap(first.err, "failed to load client deals"),
     deals |-> IF first.isDeal
               THEN MapAssign(EmptyMap, first.deal.Response.ProposalCid, first.deal)
               ELSE EmptyMap]

\* NewClient on the datastore the first client wrote, once that client is gone:
\* it was aborted, or it is shut down between calls.
NewClient ==
    /\ ~fresh.built
    /\ UNCHANGED apart
    /\ crashed \/ \A t \in Threads : pc[t] = "idle"
    /\ \E first \in DealsLsFirst : fresh' = loadDeals(first)
    /\ UNCHANGED <<store, crashed, pc, locals, err, trace, history>>

(* ----------------------------- the callers ----------------------------- *)

\* The caller has its result and is free for its next call.
Returned(t) ==
    /\ Running
    /\ UNCHANGED aside
    /\ conn' = [conn EXCEPT ![t] = NoConn]
    /\ pc[t] = "done"
    /\ pc' = [pc EXCEPT ![t] = "idle"]
    /\ proposal' = [proposal EXCEPT ![t] = NoProposal]
    /\ proposalCid' = [proposalCid EXCEPT ![t] = NoCid]
    /\ allowDuplicates' = [allowDuplicates EXCEPT ![t] = FALSE]
    /\ isDuplicate' = [isDuplicate EXCEPT ![t] = FALSE]
    /\ response' = [response EXCEPT ![t] = NoResponse]
    /\ mineraddr' = [mineraddr EXCEPT ![t] = ""]
    /\ vouchers' = [vouchers EXCEPT ![t] = <<>>]
    /\ err' = [err EXCEPT ![t] = Nil]
    /\ trace' = [trace EXCEPT ![t] = <<>>]
    /\ wasDup' = [wasDup EXCEPT ![t] = FALSE]
    /\ UNCHANGED <<store, crashed, fresh, nProposals>>

Next ==
    \/ \E t \in Threads : PD_Build(t)
    \/ \E t \in Threads : PD_DupCheck(t)
    \/ \E t \in Threads : PD_DupLoop(t)
    \/ \E t \in Threads : MapRaceAbort(t)
    \/ \E t \in Threads : PD_CreatePayments(t)
    \/ \E t \in Threads : PD_MinerGetPeerID(t)
    \/ \E t \in Threads : PD_MakeProtocolRequest(t)
    \/ \E t \in Threads : RR_Lock(t)
    \/ \E t \in Threads : RR_Check(t)
    \/ \E t \in Threads : RR_Write(t)
    \/ \E t \in Threads : SaveDeal(t)
    \/ \E t \in Queriers : MFP_Lock(t)
    \/ \E t \in Queriers : MFP_Read(t)
    \/ \E t \in Queriers : QD_MinerGetPeerID(t)
    \/ \E t \in Queriers : QD_MakeProtocolRequest(t)
    \/ \E t \in Queriers : LoadVouchersForDeal(t)
    \/ \E t \in Threads : Returned(t)
    \/ NewClient

Spec == Init /\ [][Next]_vars

(* --------------- ProposeDeal's amounts at their full width ------------- *)

\* What GetFileSize, MinerGetAsk and ChainBlockHeight answer and what the
\* caller asks for: small values, and values at the edges of 64 bits.
MaxUint64 == [i \in 1..U64Limbs |-> Base - 1]
U64Args ==
    {FromNat(3, U64Limbs), FromNat(5, U64Limbs), Pow2(32, U64Limbs),
     Pow2(62, U64Limbs), Pow2(63, U64Limbs), MaxUint64}
PriceArgs == {NewBlockHeight(FromNat(n, U64Limbs)) : n \in {0, 1, 10}}
HeightArgs == {NewBlockHeight(FromNat(7, U64Limbs))}

InitAmounts ==
    /\ ClientInit
    /\ minerPeer = [m \in Miners |-> "p1"]
    /\ hb = NoHeartbeat
    /\ \E price \in PriceArgs, size \in U64Args, duration \in U64Args,
          chainHeight \in HeightArgs :
         calc = [pc |-> "args", price |-> price, size |-> size,
                 duration |-> duration, chainHeight |-> chainHeight,
                 fromAddress |-> "wallet", minerOwner |-> "owner",
                 TotalPrice |-> NewBlockHeight(Zero(U64Limbs)),
                 Params |-> <<>>]

\* ProposeDeal, lines 130-171, once every lookup has answered: the total
\* price of the proposal and the call of CreatePayments.
PD_Amounts ==
    /\ calc.pc = "args"
    /\ calc' = [calc EXCEPT
                  !.pc = "called",
                  !.TotalPrice = totalPrice(calc.price, calc.size, calc.duration),
                  !.Params = CreatePaymentsParams(calc.fromAddress, calc.minerOwner,
                                                  calc.price, calc.size,
                                                  calc.duration, calc.chainHeight)]
    /\ UNCHANGED <<store, crashed, fresh, pc, locals, err, trace, history,
                   minerPeer, conn, hb>>

NextAmounts == PD_Amounts

SpecAmounts == InitAmounts /\ [][NextAmounts]_vars

(* -------------- QueryDeal against the deals of two miners -------------- *)

QueryMiners == {"m1", "m2"}
QueryPeers == {"p1", "p2"}

\* What ProposeDeal(miner, data, ...) leaves in the map when the miner accepts
\* and saveDeal succeeds: the key is the identity taken before the payment was
\* attached, lines 142 and 198; the Deal holds the proposal that was sent.
RecordedDeal(miner, data) ==
    LET p0 == [PieceRef |-> data, Size |-> CHOOSE x \in Sizes : TRUE,
               TotalPrice |-> TotalPriceOf(CHOOSE x \in Prices : TRUE,
                                           CHOOSE x \in Sizes : TRUE,
                                           CHOOSE x \in Durations : TRUE),
               Duration |-> CHOOSE x \in Durations : TRUE,
               MinerAddress |-> miner, Payment |-> NoPayment,
               LastDuplicate |-> <<>>]
        p == [p0 EXCEPT !.Payment = PaymentFor(CHOOSE n \in Channels : TRUE)]
    IN [key |-> ToCid(p0),
        deal |-> [Miner |-> miner, Proposal |-> p,
                  Response |-> [State |-> "Accepted", Message |-> "",
                                ProposalCid |-> ToCid(p)]]]

\* The client after ProposeDeal(m1, d1) and ProposeDeal(m2, d2) were accepted,
\* recorded and saved, with every caller between calls.
InitQuery ==
    LET x == RecordedDeal("m1", "d1")
        y == RecordedDeal("m2", "d2")
    IN /\ deals = MapAssign(MapAssign(EmptyMap, x.key, x.deal), y.key, y.deal)
       /\ ds = MapAssign(MapAssign(EmptyMap, DealKey(x.key), DumpObject(x.deal)),
                         DealKey(y.key), DumpObject(y.deal))
       /\ dealsLk = NoThread
       /\ mapWriter = NoThread
       /\ crashed = FALSE
       /\ fresh = NotBuilt
       /\ nProposals = 2
       /\ CallersIdle
       /\ minerPeer \in [QueryMiners -> QueryPeers]
       /\ calc = NoCalc
       /\ hb = NoHeartbeat

\* A miner registers another peer on chain.
MinerUpdatePeerID(m, p) ==
    /\ minerPeer[m] # p
    /\ minerPeer' = [minerPeer EXCEPT ![m] = p]
    /\ UNCHANGED <<store, crashed, fresh, pc, locals, err, trace, history,
                   conn, calc, hb>>

NextQuery ==
    \/ \E t \in Queriers : MFP_Lock(t)
    \/ \E t \in Queriers : MFP_Read(t)
    \/ \E t \in Queriers : QD_MinerGetPeerID(t)
    \/ \E t \in Queriers : QD_MakeProtocolRequest(t)
    \/ \E t \in Queriers : Returned(t)
    \/ \E m \in QueryMiners, p \in QueryPeers : MinerUpdatePeerID(m, p)

SpecQuery == InitQuery /\ [][NextQuery]_vars

(* ------------------ the heartbeat service (package metrics) ------------ *)

\* config.HeartbeatConfig as the operator wrote it.
PeriodTexts == {"10s", "0s", "-3s", "soon"}
TargetTexts == {"/ip4/127.0.0.1/tcp/9000/p2p/QmAggregator", "localhost"}

\* time.ParseDuration: the duration in seconds, or an error.
ParseDuration(text) ==
    CASE text = "10s" -> [err |-> Nil, d |-> 10]
      [] text = "0s" -> [err |-> Nil, d |-> 0]
      [] text = "-3s" -> [err |-> Nil, d |-> 0 - 3]
      [] OTHER -> [err |-> Err("time: invalid duration"), d |-> 0]

\* Connect, lines 165-178: the target parses as a multiaddr naming a peer.
TargetNamesPeer(text) == text = "/ip4/127.0.0.1/tcp/9000/p2p/QmAggregator"

InitHeartbeat ==
    /\ ClientInit
    /\ minerPeer = [m \in Miners |-> "p1"]
    /\ calc = NoCalc
    /\ \E rp \in PeriodTexts, bp \in PeriodTexts, bt \in TargetTexts :
         hb = [pc |-> "start", ReconnectPeriod |-> rp, BeatPeriod |-> bp,
               BeatTarget |-> bt, ctxDone |-> FALSE, stream |-> "nil",
               reconTick |-> FALSE, beatTick |-> FALSE,
               lastFail |-> "none", retried |-> FALSE, sent |-> FALSE]

HbFrame ==
    UNCHANGED <<store, crashed, fresh, pc, locals, err, trace, history,
                minerPeer, conn, calc>>

\* The owner of ctx cancels it.
Cancel ==
    /\ hb.pc # "off"
    /\ ~hb.ctxDone
    /\ hb' = [hb EXCEPT !.ctxDone = TRUE]
    /\ HbFrame

\* Start, lines 85-92: an unparsable ReconnectPeriod makes Start return; a
\* period that is not positive makes time.NewTicker panic.
HB_Start ==
    /\ hb.pc = "start"
    /\ LET rd == ParseDuration(hb.ReconnectPeriod)
       IN hb' = [hb EXCEPT !.pc = IF rd.err # Nil THEN "returned"
                                  ELSE IF rd.d <= 0 THEN "panicked"
                                  ELSE "select"]
    /\ HbFrame

\* reconTicker delivers a tick; its channel holds one.
ReconTick ==
    /\ hb.pc \in {"select", "connect", "run", "beating"}
    /\ ~hb.reconTick
    /\ hb' = [hb EXCEPT !.reconTick = TRUE]
    /\ HbFrame

\* Start, lines 95-99: the select of the reconnect loop.
HB_Select ==
    /\ hb.pc = "select"
    /\ \/ /\ hb.ctxDone
          /\ hb' = [hb EXCEPT !.pc = "returned"]
       \/ /\ hb.reconTick
          /\ hb' = [hb EXCEPT !.pc = "connect", !.reconTick = FALSE]
    /\ HbFrame

\* Start with a failed Connect falling through to Run.
HB_Connect_RunsAnyway ==
    /\ hb.pc = "connect"
    /\ \E opened \in BOOLEAN :
         IF TargetNamesPeer(hb.BeatTarget) /\ opened
         THEN hb' = [hb EXCEPT !.pc = "run", !.stream = "open",
                               !.retried = (hb.lastFail # "none") \/ @]
         ELSE hb' = [hb EXCEPT !.pc = "run", !.lastFail = "connect",
                               !.retried = (hb.lastFail # "none") \/ @]
    /\ HbFrame

\* Connect, lines 163-197, and Start, lines 100-104: a target that names no
\* peer or a stream that does not open sends Start back to its loop; an open
\* stream is stored and Start goes on to Run.
HB_Connect ==
    /\ hb.pc = "connect"
    /\ \E opened \in BOOLEAN :
         IF TargetNamesPeer(hb.BeatTarget) /\ opened
         THEN hb' = [hb EXCEPT !.pc = "run", !.stream = "open",
                               !.retried = (hb.lastFail # "none") \/ @]
         ELSE hb' = [hb EXCEPT !.pc = "select", !.lastFail = "connect",
                               !.retried = (hb.lastFail # "none") \/ @]
    /\ HbFrame

\* Run, lines 120-131, and Start, lines 107-111: an unparsable BeatPeriod
\* makes Run return its error and Start goes back to its loop; a period that
\* is not positive makes time.NewTicker panic.
HB_Run ==
    /\ hb.pc = "run"
    /\ LET bd == ParseDuration(hb.BeatPeriod)
       IN hb' = [hb EXCEPT !.pc = IF bd.err # Nil THEN "select"
                                  ELSE IF bd.d <= 0 THEN "panicked"
                                  ELSE "beating",
                           !.lastFail = IF bd.err # Nil THEN "beatPeriod" ELSE @,
                           !.beatTick = FALSE]
    /\ HbFrame

\* beatTicker delivers a tick.
BeatTick ==
    /\ hb.pc = "beating"
    /\ ~hb.beatTick
    /\ hb' = [hb EXCEPT !.beatTick = TRUE]
    /\ HbFrame

\* Run, lines 134-135: ctx is done, Run returns nil and Start is back in its
\* loop.
HB_RunDone ==
    /\ hb.pc = "beating"
    /\ hb.ctxDone
    /\ hb' = [hb EXCEPT !.pc = "select", !.beatTick = FALSE]
    /\ HbFrame

\* Run, lines 136-140, with Beat, lines 146-160: a heartbeat is encoded onto
\* the stream; when that fails the connection is closed, Run returns the error
\* and Start goes back to its loop.
HB_Beat ==
    /\ hb.pc = "beating"
    /\ hb.beatTick
    /\ \E written \in BOOLEAN :
         IF written
         THEN hb' = [hb EXCEPT !.beatTick = FALSE, !.sent = TRUE]
         ELSE hb' = [hb EXCEPT !.pc = "select", !.beatTick = FALSE,
                               !.stream = "closed", !.lastFail = "beat"]
    /\ HbFrame

NextHeartbeat ==
    \/ Cancel
    \/ HB_Start
    \/ ReconTick
    \/ HB_Select
    \/ HB_Connect
    \/ HB_Run
    \/ BeatTick
    \/ HB_RunDone
    \/ HB_Beat

SpecHeartbeat == InitHeartbeat /\ [][NextHeartbeat]_vars

\* Time passes, so a running ticker ticks, and the goroutine of Start is
\* scheduled, so a select with a ready case is taken.
SpecHeartbeatLive ==
    /\ InitHeartbeat
    /\ [][NextHeartbeat]_vars
    /\ WF_vars(ReconTick)
    /\ WF_vars(HB_Select)

(* -------------------------------- claims ------------------------------- *)

InTrace(t, name) == name \in Range(trace[t])
Last(s) == s[Len(s)]

\* The Record call of thread t has returned (and ProposeDeal with it).
Recorded(t) == pc[t] = "done" /\ InTrace(t, "recordResponse")

ErrInProgress ==
    Wrap(Err("deal is already in progress"), "failed to track response")

\* Two Record calls on one identity that have both returned.
RacedRecords ==
    {<<t, u>> \in Threads \X Threads :
        t # u /\ Recorded(t) /\ Recorded(u) /\ proposalCid[t] = proposalCid[u]}

\* C1 as stated: of the Record calls that raced on one identity, exactly one
\* returned success and every other one failed with "already in progress".
C1_ExactlyOneSuccess ==
    \A r \in RacedRecords :
        \/ err[r[1]] = Nil /\ err[r[2]] = ErrInProgress
        \/ err[r[2]] = Nil /\ err[r[1]] = ErrInProgress

\* C1 amended: of the Record calls that raced on one identity at most one
\* inserted the entry; a call that inserted returned success or the failure of
\* saveDeal, and its entry is still the one in the map; a call that did not
\* insert failed with "already in progress" and the identity is a key.
C1_AtMostOneInsert ==
    /\ \A r \in RacedRecords : ~(InTrace(r[1], "insert") /\ InTrace(r[2], "insert"))
    /\ \A t \in Threads :
          Recorded(t) =>
              /\ proposalCid[t] \in DOMAIN deals
              /\ IF InTrace(t, "insert")
                 THEN /\ deals[proposalCid[t]] = DealOf(t)
                      /\ err[t] \in {Nil} \cup
                             {Wrap(e, "failed to track response") : e \in SaveErrors}
                 ELSE err[t] = ErrInProgress

\* C1 witness: two Record calls raced on one identity; one succeeded and the
\* other failed with "already in progress".
C1_Witness ==
    \E r \in RacedRecords : err[r[1]] = Nil /\ err[r[2]] = ErrInProgress

PaymentCalls == {"CreatePayments", "MinerGetPeerID", "MakeProtocolRequest"}

\* C2: a ProposeDeal call with allowDuplicates=false whose identity was a key of
\* the map when the duplicate check ran has failed with the duplicate error and
\* has called neither CreatePayments nor MinerGetPeerID nor MakeProtocolRequest.
C2_DuplicateRejected ==
    \A t \in Threads :
        InTrace(t, "dupCheck") /\ wasDup[t] /\ ~allowDuplicates[t] =>
            /\ pc[t] = "done"
            /\ err[t] = ErrDuplicateDeal
            /\ Range(trace[t]) \cap PaymentCalls = {}

\* C3: Record is entered only with an Accepted response; a call whose response
\* was not Accepted has returned the response-check error without touching the
\* map or the datastore, and no stored Deal holds a response that is not Accepted.
C3_RecordOnlyAccepted ==
    /\ \A t \in Threads :
          /\ InTrace(t, "recordResponse") => response[t].State = "Accepted"
          /\ InTrace(t, "checkDealResponse") /\ response[t].State # "Accepted" =>
                /\ pc[t] = "done"
                /\ err[t] # Nil
                /\ Head(err[t]) = "response check failed"
                /\ Range(trace[t]) \cap {"recordResponse", "insert", "put"} = {}
    /\ \A c \in DOMAIN deals : deals[c].Response.State = "Accepted"
    /\ \A k \in DOMAIN ds : DecodeInto(ds[k]).Response.State = "Accepted"

\* C3 witness: a ProposeDeal call returned after a Rejected response while the
\* map holds a Deal recorded earlier.
C3_Witness ==
    \E t \in Threads :
        /\ pc[t] = "done"
        /\ InTrace(t, "checkDealResponse")
        /\ response[t].State = "Rejected"
        /\ deals # EmptyMap

\* C4: a call in which CreatePayments failed has returned that error and has made
\* no network request.
C4_NoRequestAfterPaymentFailure ==
    \A t \in Threads :
        InTrace(t, "CreatePayments failed") =>
            /\ pc[t] = "done"
            /\ err[t] = Err("CreatePayments")
            /\ ~InTrace(t, "MinerGetPeerID")
            /\ ~InTrace(t, "MakeProtocolRequest")

\* C4 witness: a call returned the error of CreatePayments.
C4_Witness ==
    \E t \in Threads :
        pc[t] = "done" /\ InTrace(t, "CreatePayments failed") /\ err[t] = Err("CreatePayments")

\* C5: a fresh client built on the datastore holds, for every identity the first
\* client recorded and saved, an equal Deal under that identity.
C5_ReloadRebuildsMap ==
    fresh.built /\ fresh.err = Nil =>
        \A c \in DOMAIN deals :
            DealKey(c) \in DOMAIN ds =>
                /\ c \in DOMAIN fresh.deals
                /\ fresh.deals[c] = deals[c]

PutError ==
    Wrap(Err("Put"),
         "could not save client deal to disk, in-memory deals differ from persisted deals!")

\* C6: a Record call that returned success has its Deal in the datastore; one
\* whose Put failed returned the could-not-save error, ProposeDeal returned an
\* error, and the entry is still in the map.
C6_SavedBeforeSuccess ==
    \A t \in Threads :
        Recorded(t) =>
            /\ err[t] = Nil =>
                  /\ InTrace(t, "put")
                  /\ DealKey(proposalCid[t]) \in DOMAIN ds
                  /\ DecodeInto(ds[DealKey(proposalCid[t])]) = DealOf(t)
            /\ InTrace(t, "put failed") =>
                  /\ err[t] = Wrap(PutError, "failed to track response")
                  /\ proposalCid[t] \in DOMAIN deals
                  /\ deals[proposalCid[t]] = DealOf(t)
                  /\ DealKey(proposalCid[t]) \notin DOMAIN ds

\* C6 witness: a Record call returned the could-not-save error and its entry is
\* in the map but not in the datastore.
C6_Witness ==
    \E t \in Threads :
        /\ Recorded(t)
        /\ InTrace(t, "put failed")
        /\ proposalCid[t] \in DOMAIN deals
        /\ DealKey(proposalCid[t]) \notin DOMAIN ds

\* C7: when the duplicate check and resolution loop of a call with
\* allowDuplicates=true, whose identity was a key of the map, hands over to
\* CreatePayments, the final identity is not a key of the map, it is the identity
\* of the proposal, and lastDuplicate is the text of the identity the last turn
\* of the loop found colliding.
C7_ResolvedIdentityIsFree ==
    [][\A t \in Threads :
          /\ pc[t] \in {"dupCheck", "dupLoop"}
          /\ pc'[t] = "createPayments"
          /\ allowDuplicates[t]
          /\ wasDup'[t]
          => /\ proposalCid'[t] \notin DOMAIN deals'
             /\ proposalCid'[t] = ToCid(proposal'[t])
             /\ pc[t] = "dupLoop"
             /\ proposal'[t].LastDuplicate = CidString(proposalCid[t])]_vars

MapAccessPcs == {"dupCheck", "dupLoop", "rrCheck", "rrWrite", "saveDeal", "mfpRead"}

\* C8: a thread about to read or write the map holds dealsLk.
C8_MapAccessUnderLock ==
    \A t \in Threads : pc[t] \in MapAccessPcs => dealsLk = t

\* C9: no step removes a key of the map or changes the Deal under a key.
C9_MapOnlyGrows ==
    [][\A c \in DOMAIN deals : c \in DOMAIN deals' /\ deals'[c] = deals[c]]_vars

\* C9 witness: the map holds two Deals while a query and a ProposeDeal call are
\* under way.
C9_Witness ==
    /\ Cardinality(DOMAIN deals) >= 2
    /\ \E t, u \in Threads : pc[t] = "qdRequest" /\ pc[u] = "saveDeal"

QueryPcs == {"mfpRead", "qdGetPeerID", "qdRequest"}

\* Thread t takes a step of QueryDeal or LoadVouchersForDeal.
QueryStep(t) ==
    \/ pc[t] \in QueryPcs /\ pc'[t] # pc[t]
    \/ /\ pc[t] = "idle"
       /\ trace'[t] # <<>>
       /\ Head(trace'[t]) \in {"minerForProposal", "LoadVouchersForDeal"}

\* C10: the steps of QueryDeal and LoadVouchersForDeal leave the map and the
\* datastore as they were.
C10_QueriesLeaveStore ==
    [][\A t \in Threads : QueryStep(t) => deals' = deals /\ ds' = ds]_vars

\* C10 witness: QueryDeal returned a Failed response for a Deal whose stored
\* response is Accepted.
C10_Witness ==
    \E t \in Threads :
        /\ pc[t] = "done"
        /\ trace[t] # <<>>
        /\ Head(trace[t]) = "minerForProposal"
        /\ err[t] = Nil
        /\ response[t].State = "Failed"
        /\ proposalCid[t] \in DOMAIN deals
        /\ deals[proposalCid[t]].Response.State = "Accepted"

\* The product price x size x duration in the integers: nothing is cut off,
\* since BigLimbs digits hold every product of a price and two uint64.
ExactProduct(price, size, duration) ==
    [neg |-> FALSE,
     mag |-> MulMod(price.mag, MulMod(size, duration, BigLimbs), BigLimbs)]

\* C11: for every ask price, data size and duration the proposal's totalPrice
\* is the exact product price x size x duration, with no wrap-around and no
\* change of sign when size x duration does not fit 64 bits.
C11_TotalPriceExact ==
    calc.pc = "called" =>
        calc.TotalPrice = ExactProduct(calc.price, calc.size, calc.duration)

\* chainHeight + duration + 2000 in the integers.
ExactExpiry(chainHeight, duration) ==
    [neg |-> FALSE,
     mag |-> AddMod(chainHeight.mag,
                    AddMod(duration, FromNat(ChannelExpiryBuffer, BigLimbs), BigLimbs),
                    BigLimbs)]

\* C12: CreatePayments is called with the proposal's totalPrice as value, the
\* requested duration, payment interval 1000, channel expiry chain height +
\* duration + 2000, the default wallet address as sender and the miner's owner
\* as target.
C12_CreatePaymentsParams ==
    calc.pc = "called" =>
        /\ calc.Params.Value = calc.TotalPrice
        /\ calc.Params.Duration = calc.duration
        /\ calc.Params.PaymentInterval = 1000
        /\ calc.Params.ChannelExpiry = ExactExpiry(calc.chainHeight, calc.duration)
        /\ calc.Params.From = calc.fromAddress
        /\ calc.Params.To = calc.minerOwner

\* The deals the datastore holds, and those of them with identity c, the
\* identity being the one LoadVouchersForDeal compares: Response.ProposalCid.
StoredDeals == {DecodeInto(ds[k]) : k \in DOMAIN ds}
StoredFor(c) == {d \in StoredDeals : d.Response.ProposalCid = c}

\* C13: LoadVouchersForDeal(id) that returns no error returns the vouchers of
\* the stored deal with identity id, wherever the enumeration puts that deal,
\* and an empty result when no stored deal has identity id.
C13_VouchersOfStoredDeal ==
    [][\A t \in Threads :
         (/\ pc[t] = "idle"
          /\ pc'[t] = "done"
          /\ trace'[t] # <<>>
          /\ Head(trace'[t]) = "LoadVouchersForDeal"
          /\ err'[t] = Nil)
         => IF StoredFor(proposalCid'[t]) = {}
            THEN vouchers'[t] = <<>>
            ELSE \E d \in StoredFor(proposalCid'[t]) :
                     vouchers'[t] = d.Proposal.Payment.Vouchers]_vars

\* How often the call of thread t made step name, and the places of its trace
\* where it did.
Places(t, name) == {i \in 1..Len(trace[t]) : trace[t][i] = name}
Count(t, name) == Cardinality(Places(t, name))

\* The messages of the error MakeProtocolRequest returned to thread t's call.
RequestMessages ==
    {"could not establish connection with peer. Peer does not support protocol",
     "failed to establish connection with the peer",
     "failed to write request", "failed to read response"}
RequestError(t) == Range(err[t]) \cap RequestMessages

\* C14: MakeProtocolRequest names the step that failed and stops there: a
\* refused open gives the "does not support protocol" error or the wrapped
\* "failed to establish connection" error, with no write and no read; a
\* failed write gives "failed to write request" with no read; a failed read
\* gives "failed to read response"; it returns success only after one write
\* followed by one read.
C14_RequestClassifiesFailures ==
    \A t \in Threads :
        InTrace(t, "MakeProtocolRequest") =>
            /\ Count(t, "NewStream") = 1
            /\ InTrace(t, "NewStream unsupported") =>
                 /\ RequestError(t) =
                      {"could not establish connection with peer. Peer does not support protocol"}
                 /\ Count(t, "WriteMsg") = 0 /\ Count(t, "ReadMsg") = 0
            /\ InTrace(t, "NewStream failed") =>
                 /\ RequestError(t) = {"failed to establish connection with the peer"}
                 /\ Count(t, "WriteMsg") = 0 /\ Count(t, "ReadMsg") = 0
            /\ InTrace(t, "WriteMsg failed") =>
                 /\ RequestError(t) = {"failed to write request"}
                 /\ Count(t, "WriteMsg") = 1 /\ Count(t, "ReadMsg") = 0
            /\ InTrace(t, "ReadMsg failed") =>
                 /\ RequestError(t) = {"failed to read response"}
                 /\ Count(t, "WriteMsg") = 1 /\ Count(t, "ReadMsg") = 1
            /\ RequestError(t) = {} =>
                 /\ Count(t, "WriteMsg") = 1 /\ Count(t, "ReadMsg") = 1
                 /\ \A i \in Places(t, "WriteMsg"), j \in Places(t, "ReadMsg") : i < j
                 /\ Range(trace[t]) \cap {"NewStream unsupported", "NewStream failed",
                                          "WriteMsg failed", "ReadMsg failed"} = {}
            /\ RequestError(t) # {} =>
                 /\ pc[t] = "done"
                 /\ response[t] = NoResponse

\* C14 witness: QueryDeal's request to a peer failed at the write, and
\* ProposeDeal's request to a peer without the protocol was refused.
C14_Witness ==
    \E t, u \in Threads :
        /\ pc[t] = "done" /\ pc[u] = "done"
        /\ InTrace(t, "minerForProposal")
        /\ InTrace(t, "WriteMsg failed")
        /\ err[t] = <<"error querying deal", "failed to write request", "WriteMsg">>
        /\ InTrace(u, "NewStream unsupported")
        /\ err[u] = <<"error sending proposal",
                      "could not establish connection with peer. Peer does not support protocol">>

\* C15: QueryDeal on an identity that is no key of the map fails with "no such
\* proposal" without asking for any peer and without opening a stream; on a
\* key it asks, on every call anew, for the peer of the miner recorded under
\* that key, and sends the query to the peer it was given.
C15_QueryResolvesRecordedMiner ==
    [][\A t \in Threads :
         /\ (pc[t] = "mfpRead" /\ pc'[t] # pc[t] /\ proposalCid[t] \notin DOMAIN deals) =>
              /\ pc'[t] = "done"
              /\ err'[t] = Err("no such proposal by cid")
              /\ trace'[t] = <<"minerForProposal">>
              /\ conn'[t] = NoConn
         /\ (pc[t] = "done" /\ err[t] = Err("no such proposal by cid")) =>
              /\ trace[t] = <<"minerForProposal">>
              /\ conn[t] = NoConn
         /\ (pc[t] = "mfpRead" /\ pc'[t] # pc[t] /\ proposalCid[t] \in DOMAIN deals) =>
              pc'[t] = "qdGetPeerID"
         /\ (pc[t] = "qdGetPeerID" /\ pc'[t] # pc[t]) =>
              /\ conn'[t].asked = deals[proposalCid[t]].Miner
              /\ pc'[t] = "qdRequest" =>
                   conn'[t].pid = minerPeer[deals[proposalCid[t]].Miner]
         /\ (pc[t] = "qdRequest" /\ pc'[t] # pc[t]) =>
              /\ conn'[t].stream = conn[t].pid
              /\ conn'[t].protocol = "queryDealProtocol"
              /\ Count(t, "MinerGetPeerID") = 1]_vars

\* C15 witness: a query for the deal made with m2 was answered by the peer m2
\* was registered at when the call asked, and m2 has moved since.
C15_Witness ==
    \E t \in Threads :
        /\ pc[t] = "done"
        /\ err[t] = Nil
        /\ InTrace(t, "minerForProposal")
        /\ proposalCid[t] \in DOMAIN deals
        /\ deals[proposalCid[t]].Miner = "m2"
        /\ conn[t].asked = "m2"
        /\ conn[t].stream = "p2"
        /\ minerPeer["m2"] = "p1"

\* The place of each step in ProposeDeal; the stream operations belong to the
\* exchange, the insert and the put to Record.
StepRank(name) ==
    CASE name = "dupCheck" -> 1
      [] name = "dupLoop" -> 2
      [] name \in {"CreatePayments", "CreatePayments failed"} -> 3
      [] name = "MinerGetPeerID" -> 4
      [] name \in {"MakeProtocolRequest", "NewStream", "NewStream unsupported",
                   "NewStream failed", "WriteMsg", "WriteMsg failed", "ReadMsg",
                   "ReadMsg failed"} -> 5
      [] name = "checkDealResponse" -> 6
      [] OTHER -> 7

OnceSteps ==
    {"dupCheck", "CreatePayments", "MinerGetPeerID", "MakeProtocolRequest",
     "NewStream", "WriteMsg", "ReadMsg", "checkDealResponse", "recordResponse",
     "insert", "put"}
FailedSteps ==
    {"CreatePayments failed", "NewStream unsupported", "NewStream failed",
     "WriteMsg failed", "ReadMsg failed", "put failed"}

\* tr is the trace of a ProposeDeal call whose steps ran in order, each at
\* most once, with nothing after a failed step.
InOrder(tr) ==
    /\ \A i, j \in 1..Len(tr) : i < j => StepRank(tr[i]) <= StepRank(tr[j])
    /\ \A i, j \in 1..Len(tr) : (tr[i] = tr[j] /\ tr[i] \in OnceSteps) => i = j
    /\ \A i \in 1..Len(tr) : tr[i] \in FailedSteps => i = Len(tr)

\* The steps a ProposeDeal call that returned error e can have ended with.
EndingSteps(e) ==
    CASE e = ErrDuplicateDeal -> {"dupCheck"}
      [] e = Wrap(Err("ToCid"), "failed to get cid of proposal") -> {"dupLoop"}
      [] e = Err("CreatePayments") -> {"CreatePayments failed"}
      [] e = Err("MinerGetPeerID") -> {"MinerGetPeerID"}
      [] Head(e) = "error sending proposal" ->
             {"NewStream unsupported", "NewStream failed", "WriteMsg failed",
              "ReadMsg failed"}
      [] Head(e) = "response check failed" -> {"checkDealResponse"}
      [] e = ErrInProgress -> {"recordResponse"}
      [] e = Wrap(Wrap(Err("DumpObject"), "could not marshal storageDeal"),
                  "failed to track response") -> {"insert"}
      [] OTHER -> {"put failed"}

\* C16: within one ProposeDeal call the steps run at most once each and in the
\* order duplicate check and resolution, CreatePayments, peer resolution, one
\* exchange, response check, Record; a step that fails ends the call with an
\* error, and no step runs after it.
C16_StepsOnceInOrder ==
    \A t \in Threads :
        /\ err[t] # Nil => pc[t] = "done"
        /\ (trace[t] # <<>> /\ Head(trace[t]) = "dupCheck") =>
             /\ InOrder(trace[t])
             /\ Last(trace[t]) \in FailedSteps => (pc[t] = "done" /\ err[t] # Nil)
             /\ err[t] # Nil => Last(trace[t]) \in EndingSteps(err[t])

\* C16 witness: one call went through every step, the resolution of a
\* duplicate included, and returned success; another ended at a failed read.
C16_Witness ==
    \E t, u \in Threads :
        /\ pc[t] = "done" /\ err[t] = Nil
        /\ \A n \in OnceSteps \cup {"dupLoop"} : Count(t, n) = 1
        /\ pc[u] = "done"
        /\ trace[u] = <<"dupCheck", "CreatePayments", "MinerGetPeerID",
                        "MakeProtocolRequest", "NewStream", "WriteMsg", "ReadMsg",
                        "ReadMsg failed">>

\* C17: HeartbeatService.Start does not return until ctx is done, whatever the
\* configuration and whatever Connect and Run do.
C17_StartReturnsOnlyWhenDone ==
    hb.pc = "returned" => hb.ctxDone

\* Start is back in its reconnect loop after a failed Connect or a heartbeat
\* that could not be sent.
BackInLoop ==
    /\ hb.pc = "select"
    /\ hb.lastFail \in {"connect", "beat"}
    /\ ~hb.ctxDone

\* C18: while ctx is not done, a failed Connect and a Run ended by a heartbeat
\* that could not be sent (the connection is then closed) both leave Start in
\* its reconnect loop, where a later tick makes it attempt Connect again;
\* heartbeats are sent only on a stream a successful Connect opened.
C18_ReconnectsAfterFailure ==
    /\ [][/\ (hb.pc = "connect" /\ hb'.pc # "connect" /\ hb'.stream # "open")
               => (hb'.pc = "select" /\ hb'.lastFail = "connect")
          /\ (hb.pc = "beating" /\ ~hb.ctxDone /\ hb'.pc # "beating")
               => (hb'.pc = "select" /\ hb'.stream = "closed" /\ hb'.lastFail = "beat")
          /\ (~hb.sent /\ hb'.sent) => (hb.pc = "beating" /\ hb.stream = "open")]_vars
    /\ [](hb.pc \in {"run", "beating"} => hb.stream = "open")
    /\ (BackInLoop ~> (hb.pc = "connect" \/ hb.ctxDone))

\* C18 witness: after a heartbeat could not be sent Start attempted Connect
\* again, the attempt failed, and Start is in its loop with ctx not done.
C18_Witness ==
    /\ hb.pc = "select"
    /\ hb.sent
    /\ hb.retried
    /\ hb.stream = "closed"
    /\ hb.lastFail = "connect"
    /\ ~hb.ctxDone

\* C19: every Deal in the map is stored under the content identity of the
\* proposal it holds (the proposal as it was sent, payment included), which is
\* the identity the miner computes for the proposal it received.
C19_KeyIsIdentityOfStoredProposal ==
    \A c \in DOMAIN deals :
        /\ c = ToCid(deals[c].Proposal)
        /\ c = deals[c].Response.ProposalCid

\* C20: no ProposeDeal call fails with "deal already in progress" after it
\* created a payment channel and the miner accepted its proposal.
C20_NoPaidCallLosesRecord ==
    \A t \in Threads :
        (/\ pc[t] = "done"
         /\ InTrace(t, "CreatePayments")
         /\ ~InTrace(t, "CreatePayments failed")
         /\ response[t].State = "Accepted")
        => err[t] # ErrInProgress

====
